---- MODULE Spec2Model ----
(***************************************************************************)
(* A model of the fsl-topup gear: the command-list builder of common.py    *)
(* (build_command_list) and the pipeline of run.py (main).                 *)
(*                                                                         *)
(* Python strings are TLA+ strings (Len and \o act on them as len and +).  *)
(* A Python list object lives in `heap`; a variable holding a list holds   *)
(* its reference (an index of heap), so that aliasing and in-place append  *)
(* are visible.                                                            *)
(***************************************************************************)
EXTENDS Integers, Sequences, FiniteSets, TLC

(***************************************************************************)
(* Bounds of the model.                                                    *)
(***************************************************************************)
\* the largest number of entries of an option mapping
MaxParams == 2
\* the integer option values are 0..MaxInt
MaxInt == 1
\* an image has at most MaxVols volumes (its 4th dimension)
MaxVols == 2
\* a translation of the motion parameter vector lies in -MaxT..MaxT
MaxT == 1

VARIABLES
    \* ---- one call of build_command_list (common.py) ----
    heap,           \* the list objects: heap[ref] is the contents of list ref
    command,        \* the reference passed as `command`
    ParamList,      \* the dict passed as `ParamList`: its (key, value) pairs in insertion order
    include_keys,   \* the flag passed as `include_keys`
    bpc,            \* "call": about to call; "returned"; "raised"
    result,         \* the reference returned (0: nothing returned)
    exc,            \* the exception that left the call ("none": none)
    added,          \* added[i]: the tokens the i-th loop iteration appended
    command0,       \* the contents of the `command` list at entry
    ParamList0,     \* the contents of `ParamList` at entry
    \* ---- one run of main() (run.py) ----
    pc,             \* where main() is
    ctx,            \* the gear context: the inputs and the config
    apply_to_files, \* main's apply_to_files: (file, row index) pairs
    output_files,   \* apply_topup's output_files
    corrected_files,\* main's corrected_files (Unbound until line 362 assigns it)
    file_comparison,\* main's file_comparison
    ai,             \* apply_topup's position in apply_topup_files
    qi,             \* the QA loop's position in file_comparison
    qs,             \* which command of generate_topup_report comes next
    procs,          \* the external processes running (their pids)
    waitfor,        \* the pid communicate() is blocked on (0: none)
    rc,             \* the return code communicate() last saw
    log,            \* the processes started and exited, in order
    qabad,          \* a command of the report being made has returned non-zero
    mexc,           \* the exception that ended main() ("none": none)
    \* ---- one call of the Rigid Transform Builder ----
    motion,         \* the motion parameter vector (tx, ty, tz, rx, ry, rz)
    premat,         \* the 4x4 matrix returned
    rpc             \* "call": about to call; "returned"

buildVars == <<heap, command, ParamList, include_keys, bpc, result, exc, added,
               command0, ParamList0>>

mainVars == <<pc, ctx, apply_to_files, output_files, corrected_files, file_comparison,
              ai, qi, qs, procs, waitfor, rc, log, qabad, mexc>>

rigidVars == <<motion, premat, rpc>>

vars == <<buildVars, mainVars, rigidVars>>

(***************************************************************************)
(* Python values an option can hold.                                       *)
(*   bool   True / False                                                   *)
(*   int    an integer                                                     *)
(*   str    a string                                                       *)
(*   none   None                                                          *)
(*   obj    an object whose __str__ returns the string s; like every       *)
(*          object without __bool__/__len__ it is truthy                   *)
(*   unstr  an object whose __str__ does not return a string: str() of it  *)
(*          raises TypeError; it is truthy                                 *)
(***************************************************************************)
PyBool(b) == [kind |-> "bool", b |-> b, n |-> 0, s |-> ""]
PyInt(n) == [kind |-> "int", b |-> FALSE, n |-> n, s |-> ""]
PyStr(s) == [kind |-> "str", b |-> FALSE, n |-> 0, s |-> s]
PyNone == [kind |-> "none", b |-> FALSE, n |-> 0, s |-> ""]
PyObj(s) == [kind |-> "obj", b |-> FALSE, n |-> 0, s |-> s]
PyUnstr == [kind |-> "unstr", b |-> FALSE, n |-> 0, s |-> ""]

\* one decimal digit
Digit(d) ==
    CASE d = 0 -> "0" [] d = 1 -> "1" [] d = 2 -> "2" [] d = 3 -> "3"
      [] d = 4 -> "4" [] d = 5 -> "5" [] d = 6 -> "6" [] d = 7 -> "7"
      [] d = 8 -> "8" [] d = 9 -> "9"

\* str(n) of a natural number n
RECURSIVE NatStr(_)
NatStr(n) == IF n < 10 THEN Digit(n) ELSE NatStr(n \div 10) \o Digit(n % 10)

\* whether str(v) returns (it raises TypeError otherwise)
StrOk(v) == v.kind # "unstr"

\* str(v), for a value whose str() returns
str(v) ==
    CASE v.kind = "bool" -> (IF v.b THEN "True" ELSE "False")
      [] v.kind = "int" -> (IF v.n < 0 THEN "-" \o NatStr(-v.n) ELSE NatStr(v.n))
      [] v.kind = "str" -> v.s
      [] v.kind = "none" -> "None"
      [] v.kind = "obj" -> v.s

\* the truth value of v, as `if v` takes it
Truthy(v) ==
    CASE v.kind = "bool" -> v.b
      [] v.kind = "int" -> v.n # 0
      [] v.kind = "str" -> Len(v.s) > 0
      [] v.kind = "none" -> FALSE
      [] v.kind = "obj" -> TRUE
      [] v.kind = "unstr" -> TRUE

(***************************************************************************)
(* build_command_list, common.py 14-49.                                    *)
(***************************************************************************)
\* a step of the loop body: the list after it, and the exception it raised
Went(cmd) == [command |-> cmd, exc |-> "none"]
Raised(cmd, e) == [command |-> cmd, exc |-> e]

\* ShortOption with line 27's test of the value dropped: a False flag is emitted
ShortOption_flagForFalse(cmd, key, value, ik) ==
    IF ik
    THEN IF value.kind = "bool"
         THEN Went(Append(cmd, "-" \o key))
         ELSE IF ~StrOk(value)
         THEN Raised(cmd, "TypeError")
         ELSE IF Len(str(value)) = 0
         THEN IF Truthy(value) /\ ik THEN Went(Append(cmd, "-" \o key)) ELSE Went(cmd)
         ELSE Went(Append(Append(cmd, "-" \o key), str(value)))
    ELSE Went(cmd)

\* ShortOption with line 26 testing `not value` in place of len(str(value)) == 0
ShortOption_truthiness(cmd, key, value, ik) ==
    IF ik
    THEN IF value.kind = "bool" \/ ~Truthy(value)
         THEN IF Truthy(value) /\ ik THEN Went(Append(cmd, "-" \o key)) ELSE Went(cmd)
         ELSE IF ~StrOk(value)
         THEN Raised(cmd, "TypeError")
         ELSE Went(Append(Append(cmd, "-" \o key), str(value)))
    ELSE Went(cmd)

\* ShortOption with str(value) taken before line 24's test of include_keys
ShortOption_strFirst(cmd, key, value, ik) ==
    IF value.kind # "bool" /\ ~StrOk(value)
    THEN Raised(cmd, "TypeError")
    ELSE IF ik
    THEN IF value.kind = "bool" \/ Len(str(value)) = 0
         THEN IF Truthy(value) /\ ik THEN Went(Append(cmd, "-" \o key)) ELSE Went(cmd)
         ELSE Went(Append(Append(cmd, "-" \o key), str(value)))
    ELSE Went(cmd)

\* lines 23-31: a key of one character
ShortOption(cmd, key, value, ik) ==
    IF ik
    THEN IF value.kind = "bool"
         THEN IF Truthy(value) /\ ik THEN Went(Append(cmd, "-" \o key)) ELSE Went(cmd)
         ELSE IF ~StrOk(value)
         THEN Raised(cmd, "TypeError")
         ELSE IF Len(str(value)) = 0
         THEN IF Truthy(value) /\ ik THEN Went(Append(cmd, "-" \o key)) ELSE Went(cmd)
         ELSE Went(Append(Append(cmd, "-" \o key), str(value)))
    ELSE Went(cmd)

\* LongOption with line 48 inserting at the front of the list
LongOption_prepend(cmd, key, value, ik) ==
    IF value.kind = "bool"
    THEN IF Truthy(value) /\ ik THEN Went(<<"--" \o key>> \o cmd) ELSE Went(cmd)
    ELSE IF ~StrOk(value)
    THEN Raised(cmd, "TypeError")
    ELSE LET item0 == IF ik THEN "--" \o key ELSE ""
             item1 == IF Len(str(value)) > 0
                      THEN (IF ik THEN item0 \o "=" ELSE item0) \o str(value)
                      ELSE item0
         IN  Went(<<item1>> \o cmd)

\* LongOption giving the value as a token of its own, as ShortOption does
LongOption_separate(cmd, key, value, ik) ==
    IF value.kind = "bool"
    THEN IF Truthy(value) /\ ik THEN Went(Append(cmd, "--" \o key)) ELSE Went(cmd)
    ELSE IF ~StrOk(value)
    THEN Raised(cmd, "TypeError")
    ELSE LET item0 == IF ik THEN "--" \o key ELSE ""
         IN  IF Len(str(value)) > 0
             THEN Went(Append(Append(cmd, item0), str(value)))
             ELSE Went(Append(cmd, item0))

\* LongOption with line 44's test dropped: "=" and the value always follow
LongOption_alwaysEq(cmd, key, value, ik) ==
    IF value.kind = "bool"
    THEN IF Truthy(value) /\ ik THEN Went(Append(cmd, "--" \o key)) ELSE Went(cmd)
    ELSE IF ~StrOk(value)
    THEN Raised(cmd, "TypeError")
    ELSE LET item0 == IF ik THEN "--" \o key ELSE ""
             item1 == (IF ik THEN item0 \o "=" ELSE item0) \o str(value)
         IN  Went(Append(cmd, item1))

\* lines 33-48: a longer key
LongOption(cmd, key, value, ik) ==
    IF value.kind = "bool"
    THEN IF Truthy(value) /\ ik THEN Went(Append(cmd, "--" \o key)) ELSE Went(cmd)
    ELSE IF ~StrOk(value)
    THEN Raised(cmd, "TypeError")
    ELSE LET item0 == IF ik THEN "--" \o key ELSE ""
             item1 == IF Len(str(value)) > 0
                      THEN (IF ik THEN item0 \o "=" ELSE item0) \o str(value)
                      ELSE item0
         IN  Went(Append(cmd, item1))

\* lines 22-48: the body of the loop, for one key
LoopBody(cmd, key, value, ik) ==
    IF Len(key) = 1
    THEN ShortOption(cmd, key, value, ik)
    ELSE LongOption(cmd, key, value, ik)

\* lines 21-48: the loop from the i-th key on; `add` is what the iterations
\* before it appended, one entry each
RECURSIVE Loop(_, _, _, _, _)
Loop(cmd, params, ik, i, add) ==
    IF i > Len(params)
    THEN [command |-> cmd, exc |-> "none", added |-> add]
    ELSE LET r == LoopBody(cmd, params[i][1], params[i][2], ik)
             new == IF Len(r.command) >= Len(cmd)
                    THEN SubSeq(r.command, Len(cmd) + 1, Len(r.command))
                    ELSE <<>>
         IN  IF r.exc # "none"
             THEN [command |-> r.command, exc |-> r.exc, added |-> add]
             ELSE Loop(r.command, params, ik, i + 1, Append(add, new))

\* build_command_list appending to a copy of `command` and returning the copy
build_command_list_copy(h, ref, params, ik) ==
    LET r == Loop(h[ref], params, ik, 1, <<>>)
    IN  [heap |-> IF r.exc = "none" THEN Append(h, r.command) ELSE h,
         result |-> IF r.exc = "none" THEN Len(h) + 1 ELSE 0,
         exc |-> r.exc,
         added |-> r.added]

\* the call: the heap after it, the reference returned, the exception.
\* Line 49 returns the list it was given: no list is created.
build_command_list(h, ref, params, ik) ==
    LET r == Loop(h[ref], params, ik, 1, <<>>)
    IN  [heap |-> [h EXCEPT ![ref] = r.command],
         result |-> IF r.exc = "none" THEN ref ELSE 0,
         exc |-> r.exc,
         added |-> r.added]

(***************************************************************************)
(* The gear context, the inputs and the paths of run.py.                   *)
(*                                                                         *)
(* A path is a directory and a base name (os.path.split gives the two);    *)
(* NoPath is the None that get_input_path returns for an input not given.  *)
(***************************************************************************)
Path(d, b) == [dir |-> d, base |-> b]
NoPath == Path("", "")
PathStr(p) == p.dir \o "/" \o p.base
\* os.path.join(d, b)
join(d, b) == Path(d, b)
\* a name bound to nothing yet, and a name bound to v
Unbound == [bound |-> FALSE, value |-> <<>>]
Bound(v) == [bound |-> TRUE, value |-> v]

work_dir == "work"
output_dir == "output"
DEFAULT_CONFIG == Path("/flywheel/v0", "b02b0.cnf")
fsldir == "/usr/lib/fsl/5.0"

\* is4D taking every image with a 4th dimension as 4D, a single volume included
is4D_anyFourth(shape) == Len(shape) >= 4

\* run.py 61-77; shape is the image's header.get_data_shape()
is4D(shape) ==
    IF Len(shape) < 4 THEN FALSE
    ELSE IF shape[4] > 1 THEN TRUE
    ELSE FALSE

\* run.py 80-139
check_inputs(c) ==
    (IF is4D(c.shape_1) THEN << <<c.image_1, "1">> >> ELSE <<>>)
    \o (IF is4D(c.shape_2) THEN << <<c.image_2, "2">> >> ELSE <<>>)
    \o (IF c.apply_to_1 # NoPath THEN << <<c.apply_to_1, "1">> >> ELSE <<>>)
    \o (IF c.apply_to_2 # NoPath THEN << <<c.apply_to_2, "2">> >> ELSE <<>>)

\* run.py 161-176 and 179-187: the command that leaves one volume of an image in work_dir
ExtractCmd(image, shape, base_out) ==
    IF is4D(shape)
    THEN <<"fslroi", PathStr(image), PathStr(base_out), "0", "1">>
    ELSE <<"fslmaths", PathStr(image), PathStr(base_out)>>

base_out1 == join(work_dir, "Image1")
base_out2 == join(work_dir, "Image2")
\* run.py 190: generate_topup_input's result
merged == join(work_dir, "topup_vols")
\* run.py 191
MergeCmd == <<"fslmerge", "-t", PathStr(merged), PathStr(base_out1), PathStr(base_out2)>>

\* run.py 225: run_topup's result
topup_out == join(output_dir, "topup")

\* run.py 214-250
argument_dict(c, input) ==
    LET config_path == IF c.config_file = NoPath THEN DEFAULT_CONFIG ELSE c.config_file
        out == PathStr(topup_out)
    IN  << <<"imain", PyStr(PathStr(input))>>,
           <<"datain", PyStr(PathStr(c.acquisition_parameters))>>,
           <<"out", PyStr(out)>>,
           <<"fout", PyStr(PathStr(join(output_dir, "topup-fmap")))>>,
           <<"iout", PyStr(PathStr(join(output_dir, "topup-input-corrected")))>>,
           <<"logout", PyStr(PathStr(join(output_dir, "topup-log.txt")))>>,
           <<"config", PyStr(PathStr(config_path))>> >>
        \o (IF c.displacement_field THEN << <<"dfout", PyStr(out \o "-dfield")>> >> ELSE <<>>)
        \o (IF c.jacobian_determinants THEN << <<"jacout", PyStr(out \o "-jacdet")>> >> ELSE <<>>)
        \o (IF c.rigid_body_matrix THEN << <<"rbmout", PyStr(out \o "-rbmat")>> >> ELSE <<>>)
        \o (IF c.verbose THEN << <<"verbose", PyBool(TRUE)>> >> ELSE <<>>)
        \o (IF c.topup_debug_level # 0
            THEN << <<"debug", PyInt(c.topup_debug_level)>> >> ELSE <<>>)

\* run.py 256
TopupCmd(c, input) ==
    LET r == build_command_list(<< <<"topup">> >>, 1, argument_dict(c, input), TRUE)
    IN  r.heap[r.result]

\* run.py 285-286
OutputFile(fl) == join(output_dir, "topup-corrected-" \o fl.base)

\* run.py 290-297
ApplyCmd(c, fl, ix) ==
    <<"applytopup",
      "--imain=" \o PathStr(fl),
      "--datain=" \o PathStr(c.acquisition_parameters),
      "--inindex=" \o ix,
      "--topup=" \o PathStr(topup_out),
      "--method=jac",
      "--interp=spline",
      "--out=" \o PathStr(OutputFile(fl))>>

\* run.py 372
FileComparison(files, corrected) ==
    [i \in 1..Len(corrected) |-> <<files[i][1], corrected[i]>>]

(***************************************************************************)
(* mri_qa.py: the commands of one report.                                  *)
(***************************************************************************)
\* the commands outline_overlay runs (mri_qa.py 185-191), in order: bet's two
\* (24, 35), bet_2_outline's four (66, 74, 85, 94), overlay's three (123, 134, 147)
OutlineCmd(i, background, outline, name) ==
    LET workdir == work_dir \o "/outline_work"
        bet_out == workdir \o "/bet"
        diff_out == bet_out \o "_diff"
        thresh_out == bet_out \o "_thresh"
        bin_out == bet_out \o "_outline"
        out == PathStr(name)
        x == work_dir \o "/x0v.png"
        y == work_dir \o "/y0v.png"
        z == work_dir \o "/z0v.png"
    IN  CASE i = 1 -> <<fsldir \o "/fslstats", PathStr(outline), "-C">>
          [] i = 2 -> <<fsldir \o "/bet2", PathStr(outline), bet_out, "-o", "-m", "-t",
                        "-f", "0.5", "-w", "0.4", "-c", "center_of_mass">>
          [] i = 3 -> <<"fslmaths", bet_out \o "_overlay.nii.gz", "-sub",
                        PathStr(outline), diff_out>>
          [] i = 4 -> <<"fslstats", diff_out, "-p", "97">>
          [] i = 5 -> <<"fslmaths", diff_out, "-thr", "thresh", thresh_out>>
          [] i = 6 -> <<"fslmaths", thresh_out, "-bin", bin_out>>
          [] i = 7 -> <<"overlay", "0", "0", PathStr(background), "-a", bin_out,
                        "0.001", "5", out>>
          [] i = 8 -> <<"slicer", out, "-c", "-s", "3", "-x", "0.5", x, "-y", "0.5", y,
                        "-z", "0.5", z>>
          [] i = 9 -> <<fsldir \o "/pngappend", x, "+", "4", y, "+", "4", z, out \o ".png">>

\* the commands one outline_overlay runs
OutlineCmds == 9
\* after these commands of an outline_overlay bet_2_outline removes its files (102-103)
RemoveAfter == 6

\* the commands generate_topup_report runs (mri_qa.py 250-256): the outline of the
\* corrected image over the original, then of the original over the corrected
ReportCmd(i, original, corrected) ==
    IF i <= OutlineCmds
    THEN OutlineCmd(i, original, corrected, join(work_dir, "corrected_over_original"))
    ELSE OutlineCmd(i - OutlineCmds, corrected, original,
                    join(work_dir, "original_over_corrected"))

(***************************************************************************)
(* The inputs of a call.                                                   *)
(***************************************************************************)
Keys == {"k", "imain", "verbose"}
Values == {PyBool(TRUE), PyBool(FALSE), PyStr(""), PyStr("a.nii"), PyNone, PyObj(""), PyUnstr}
            \cup {PyInt(n) : n \in 0..MaxInt}
Commands == {<<>>, <<"topup">>}

RECURSIVE SeqsUpTo(_, _)
SeqsUpTo(S, n) ==
    IF n = 0 THEN {<<>>}
    ELSE LET shorter == SeqsUpTo(S, n - 1)
         IN  shorter \cup {Append(q, x) : q \in {p \in shorter : Len(p) = n - 1}, x \in S}

\* a dict: its keys are distinct
ParamLists ==
    {p \in SeqsUpTo(Keys \X Values, MaxParams) :
        \A i, j \in 1..Len(p) : p[i][1] = p[j][1] => i = j}

(***************************************************************************)
(* The Rigid Transform Builder.  Angles are whole quarter turns, so that   *)
(* cosine and sine are exact integers; translations are integers.  Rows    *)
(* and columns are numbered from 0.                                        *)
(***************************************************************************)
Axes == 0..3
QuarterTurns == 0..3
Translations == (0 - MaxT)..MaxT

\* cosine and sine of a quarter turns
Cos(a) == CASE a % 4 = 0 -> 1 [] a % 4 = 2 -> 0 - 1 [] OTHER -> 0
Sin(a) == CASE a % 4 = 1 -> 1 [] a % 4 = 3 -> 0 - 1 [] OTHER -> 0

\* the 4x4 identity, and the 4x4 matrix of zeros
Eye == [i \in Axes |-> [j \in Axes |-> IF i = j THEN 1 ELSE 0]]
Zeros == [i \in Axes |-> [j \in Axes |-> 0]]

\* M with the entry of row i, column j set to x
Put(M, i, j, x) == [M EXCEPT ![i][j] = x]

\* Rx: cos, sin, -sin, cos at (1,1), (1,2), (2,1), (2,2)
Rx(a) == Put(Put(Put(Put(Eye, 1, 1, Cos(a)), 1, 2, Sin(a)), 2, 1, 0 - Sin(a)), 2, 2, Cos(a))
\* Ry: cos, -sin, sin, cos at (0,0), (0,2), (2,0), (2,2)
Ry(a) == Put(Put(Put(Put(Eye, 0, 0, Cos(a)), 0, 2, 0 - Sin(a)), 2, 0, Sin(a)), 2, 2, Cos(a))
\* Rz: cos, sin, -sin, cos at (0,0), (0,1), (1,0), (1,1)
Rz(a) == Put(Put(Put(Put(Eye, 0, 0, Cos(a)), 0, 1, Sin(a)), 1, 0, 0 - Sin(a)), 1, 1, Cos(a))

\* the matrix product A . B
Dot(A, B) ==
    [i \in Axes |-> [j \in Axes |->
        A[i][0] * B[0][j] + A[i][1] * B[1][j] + A[i][2] * B[2][j] + A[i][3] * B[3][j]]]

\* the translation written into the bottom row instead of the last column
SetTranslation_bottomRow(R, tx, ty, tz) == Put(Put(Put(R, 3, 0, tx), 3, 1, ty), 3, 2, tz)

\* overwrite R[0][3] = tx, R[1][3] = ty, R[2][3] = tz
SetTranslation(R, tx, ty, tz) == Put(Put(Put(R, 0, 3, tx), 1, 3, ty), 2, 3, tz)

\* R = Rx . Ry . Rz, then the translation in the last column
RigidTransform(tx, ty, tz, rx, ry, rz) ==
    SetTranslation(Dot(Dot(Rx(rx), Ry(ry)), Rz(rz)), tx, ty, tz)

MotionParameters ==
    [tx : Translations, ty : Translations, tz : Translations,
     rx : QuarterTurns, ry : QuarterTurns, rz : QuarterTurns]

\* the Rigid Transform Builder is not being called
RigidIdle ==
    /\ motion = [tx |-> 0, ty |-> 0, tz |-> 0, rx |-> 0, ry |-> 0, rz |-> 0]
    /\ premat = Zeros
    /\ rpc = "idle"

\* main() is not running
MainIdle ==
    /\ pc = "idle"
    /\ ctx = NoPath
    /\ apply_to_files = <<>>
    /\ output_files = <<>>
    /\ corrected_files = Unbound
    /\ file_comparison = <<>>
    /\ ai = 0
    /\ qi = 0
    /\ qs = 0
    /\ procs = {}
    /\ waitfor = 0
    /\ rc = 0
    /\ log = <<>>
    /\ qabad = FALSE
    /\ mexc = "none"

\* build_command_list is not being called on its own
BuildIdle ==
    /\ heap = <<>>
    /\ command = 0
    /\ ParamList = <<>>
    /\ include_keys = TRUE
    /\ bpc = "idle"
    /\ result = 0
    /\ exc = "none"
    /\ added = <<>>
    /\ command0 = <<>>
    /\ ParamList0 = <<>>

BuildInit ==
    /\ MainIdle
    /\ RigidIdle
    /\ ParamList \in ParamLists
    /\ include_keys \in BOOLEAN
    /\ \E c \in Commands : heap = <<c>> /\ command0 = c
    /\ command = 1
    /\ ParamList0 = ParamList
    /\ bpc = "call"
    /\ result = 0
    /\ exc = "none"
    /\ added = <<>>

\* common.py 14-49: one call, the whole of it
BuildCommandList ==
    /\ bpc = "call"
    /\ LET r == build_command_list(heap, command, ParamList, include_keys)
       IN  /\ heap' = r.heap
           /\ result' = r.result
           /\ exc' = r.exc
           /\ added' = r.added
           /\ bpc' = IF r.exc = "none" THEN "returned" ELSE "raised"
    /\ UNCHANGED <<command, ParamList, include_keys, command0, ParamList0>>
    /\ UNCHANGED <<mainVars, rigidVars>>

Init == BuildInit

Next == BuildCommandList

Spec == Init /\ [][Next]_vars

(***************************************************************************)
(* main(), run.py 305-396.                                                 *)
(***************************************************************************)
Shapes == {<<2, 2, 2>>} \cup {<<2, 2, 2, n>> : n \in 1..MaxVols}

\* the gear contexts a run starts from. The five options of topup are all off
\* or all on.
Contexts ==
    { [image_1 |-> Path("input/image_1", "a.nii.gz"),
       shape_1 |-> s1,
       image_2 |-> Path("input/image_2", "b.nii.gz"),
       shape_2 |-> s2,
       config_file |-> cf,
       apply_to_1 |-> a1,
       apply_to_2 |-> a2,
       acquisition_parameters |-> Path("input/acquisition_parameters", "acq.txt"),
       topup_only |-> only,
       QA |-> qa,
       displacement_field |-> o,
       jacobian_determinants |-> o,
       rigid_body_matrix |-> o,
       verbose |-> o,
       topup_debug_level |-> IF o THEN 1 ELSE 0] :
        s1 \in Shapes, s2 \in Shapes,
        cf \in {NoPath, Path("input/config_file", "my.cnf")},
        a1 \in {NoPath, Path("input/apply_to_1", "a.nii.gz"),
                Path("input/apply_to_1", "c.nii.gz")},
        a2 \in {NoPath, Path("input/apply_to_2", "d.nii.gz")},
        only \in BOOLEAN, qa \in BOOLEAN, o \in BOOLEAN }

MainInit ==
    /\ BuildIdle
    /\ RigidIdle
    /\ pc = "check_inputs"
    /\ ctx \in Contexts
    /\ apply_to_files = <<>>
    /\ output_files = <<>>
    /\ corrected_files = Unbound
    /\ file_comparison = <<>>
    /\ ai = 0
    /\ qi = 0
    /\ qs = 0
    /\ procs = {}
    /\ waitfor = 0
    /\ rc = 0
    /\ log = <<>>
    /\ qabad = FALSE
    /\ mexc = "none"

dataVars == <<ctx, apply_to_files, output_files, corrected_files, file_comparison>>
qaVars == <<qi, qs, qabad>>

\* the pids given so far
Started == {i \in 1..Len(log) : log[i].ev = "start"}

\* sp.Popen (common.py 70-71, mri_qa.py 28, 38, 68, ...): the process starts
Popen(argv, by) ==
    LET pid == Cardinality(Started) + 1
    IN  /\ procs' = procs \cup {pid}
        /\ waitfor' = pid
        /\ log' = Append(log, [ev |-> "start", pid |-> pid, argv |-> argv, by |-> by])

\* result.communicate() with the poll() of line 86 in its place: it does not block
Blocked_poll == FALSE

\* result.communicate() (common.py 89, mri_qa.py 31, 41, 70, ...) has not returned:
\* the caller goes no further until the process has exited
Blocked == waitfor # 0

\* the process communicate() waits for exits with `code`
Exited(code) ==
    /\ rc' = code
    /\ procs' = procs \ {waitfor}
    /\ waitfor' = 0
    /\ log' = Append(log, [ev |-> "exit", pid |-> waitfor,
                           argv |-> log[Len(log)].argv, by |-> log[Len(log)].by])

\* where main() goes on after a command of exec_command has returned 0
After(site) ==
    CASE site = "image1" -> "image2"
      [] site = "image2" -> "merge"
      [] site = "merge" -> "topup"
      [] site = "topup" -> "apply_check"
      [] site = "apply" -> "apply"

\* the exception main()'s try blocks raise (run.py 346, 354, 364)
ErrorOf(site) ==
    CASE site \in {"image1", "image2", "merge"} -> "Error generating topup inputs"
      [] site = "topup" -> "Error running topup"
      [] site = "apply" -> "Error applying topup to inputs"

\* run.py 336
CheckInputs ==
    /\ pc = "check_inputs"
    /\ ~Blocked
    /\ apply_to_files' = check_inputs(ctx)
    /\ pc' = "image1"
    /\ UNCHANGED <<ctx, output_files, corrected_files, file_comparison, ai, qaVars,
                   procs, waitfor, rc, log, mexc>>
    /\ UNCHANGED <<buildVars, rigidVars>>

\* run.py 161-176
ExtractImage1 ==
    /\ pc = "image1"
    /\ ~Blocked
    /\ Popen(ExtractCmd(ctx.image_1, ctx.shape_1, base_out1), "generate_topup_input")
    /\ UNCHANGED <<pc, dataVars, ai, qaVars, rc, mexc>>
    /\ UNCHANGED <<buildVars, rigidVars>>

\* run.py 179-187
ExtractImage2 ==
    /\ pc = "image2"
    /\ ~Blocked
    /\ Popen(ExtractCmd(ctx.image_2, ctx.shape_2, base_out2), "generate_topup_input")
    /\ UNCHANGED <<pc, dataVars, ai, qaVars, rc, mexc>>
    /\ UNCHANGED <<buildVars, rigidVars>>

\* run.py 190-192
Merge ==
    /\ pc = "merge"
    /\ ~Blocked
    /\ Popen(MergeCmd, "generate_topup_input")
    /\ UNCHANGED <<pc, dataVars, ai, qaVars, rc, mexc>>
    /\ UNCHANGED <<buildVars, rigidVars>>

\* run.py 197-257
RunTopup ==
    /\ pc = "topup"
    /\ ~Blocked
    /\ Popen(TopupCmd(ctx, merged), "run_topup")
    /\ UNCHANGED <<pc, dataVars, ai, qaVars, rc, mexc>>
    /\ UNCHANGED <<buildVars, rigidVars>>

\* common.py 89-101: communicate() returns; a return code that is not 0 raises
Communicate ==
    /\ pc \in {"image1", "image2", "merge", "topup", "apply"}
    /\ waitfor # 0
    /\ \E code \in {0, 1} :
        /\ Exited(code)
        /\ IF code # 0
           THEN pc' = "failed" /\ mexc' = ErrorOf(pc) /\ ai' = ai
           ELSE pc' = After(pc) /\ mexc' = mexc
                /\ ai' = IF pc = "apply" THEN ai + 1 ELSE ai
    /\ UNCHANGED <<dataVars, qaVars>>
    /\ UNCHANGED <<buildVars, rigidVars>>

\* run.py 360-361
ApplyCheck ==
    /\ pc = "apply_check"
    /\ ~Blocked
    /\ IF ~ctx.topup_only
       THEN pc' = "apply" /\ ai' = 1 /\ output_files' = <<>>
       ELSE pc' = "compare" /\ ai' = ai /\ output_files' = output_files
    /\ UNCHANGED <<ctx, apply_to_files, corrected_files, file_comparison, qaVars,
                   procs, waitfor, rc, log, mexc>>
    /\ UNCHANGED <<buildVars, rigidVars>>

\* run.py 282-300: one turn of apply_topup's loop
ApplyTopup ==
    /\ pc = "apply"
    /\ ~Blocked
    /\ ai <= Len(apply_to_files)
    /\ LET fl == apply_to_files[ai][1]
           ix == apply_to_files[ai][2]
       IN  /\ output_files' = Append(output_files, OutputFile(fl))
           /\ Popen(ApplyCmd(ctx, fl, ix), "apply_topup")
    /\ UNCHANGED <<pc, ctx, apply_to_files, corrected_files, file_comparison, ai,
                   qaVars, rc, mexc>>
    /\ UNCHANGED <<buildVars, rigidVars>>

\* run.py 302 and 362: apply_topup returns
ApplyReturn ==
    /\ pc = "apply"
    /\ ~Blocked
    /\ ai > Len(apply_to_files)
    /\ corrected_files' = Bound(output_files)
    /\ pc' = "compare"
    /\ UNCHANGED <<ctx, apply_to_files, output_files, file_comparison, ai, qaVars,
                   procs, waitfor, rc, log, mexc>>
    /\ UNCHANGED <<buildVars, rigidVars>>

\* run.py 372, outside every try block
Compare ==
    /\ pc = "compare"
    /\ ~Blocked
    /\ IF ~corrected_files.bound
       THEN pc' = "failed" /\ mexc' = "NameError" /\ file_comparison' = file_comparison
       ELSE /\ file_comparison' = FileComparison(apply_to_files, corrected_files.value)
            /\ pc' = "qa_check"
            /\ mexc' = mexc
    /\ UNCHANGED <<ctx, apply_to_files, output_files, corrected_files, ai, qaVars,
                   procs, waitfor, rc, log>>
    /\ UNCHANGED <<buildVars, rigidVars>>

\* run.py 375-377
QACheck ==
    /\ pc = "qa_check"
    /\ ~Blocked
    /\ IF ctx.QA
       THEN pc' = "qa" /\ qi' = 1 /\ qs' = 1
       ELSE pc' = "done" /\ qi' = qi /\ qs' = qs
    /\ UNCHANGED <<dataVars, ai, qabad, procs, waitfor, rc, log, mexc>>
    /\ UNCHANGED <<buildVars, rigidVars>>

\* mri_qa.py 24-29, 35-39, 66-69, ...: the next command of the report of pair qi
QACommand ==
    /\ pc = "qa"
    /\ ~Blocked
    /\ qi <= Len(file_comparison)
    /\ qs <= 2 * OutlineCmds
    /\ Popen(ReportCmd(qs, file_comparison[qi][1], file_comparison[qi][2]),
             "generate_topup_report")
    /\ UNCHANGED <<pc, dataVars, ai, qaVars, rc, mexc>>
    /\ UNCHANGED <<buildVars, rigidVars>>

\* mri_qa.py 31, 41, 70, ...: communicate() returns; the return code is not looked at
QACommunicate ==
    /\ pc = "qa"
    /\ waitfor # 0
    /\ \E code \in {0, 1} :
        /\ Exited(code)
        /\ qabad' = (qabad \/ code # 0)
    /\ qs' = qs + 1
    /\ pc' = IF qs \in {RemoveAfter, OutlineCmds + RemoveAfter} THEN "qa_remove"
             ELSE IF qs = 2 * OutlineCmds THEN "qa_plot"
             ELSE "qa"
    /\ UNCHANGED <<dataVars, ai, qi, mexc>>
    /\ UNCHANGED <<buildVars, rigidVars>>

\* mri_qa.py 102-103: os.remove of bet_2_outline's files, which raises when a
\* command that failed left a file unwritten
QARemove ==
    /\ pc = "qa_remove"
    /\ ~Blocked
    /\ \/ pc' = "qa" /\ mexc' = mexc
       \/ qabad /\ pc' = "failed" /\ mexc' = "Error running topup QC"
    /\ UNCHANGED <<dataVars, ai, qaVars, procs, waitfor, rc, log>>
    /\ UNCHANGED <<buildVars, rigidVars>>

\* mri_qa.py 258-262 and run.py 378-392: the report is plotted from the overlays
\* (imread raises when one is missing) and moved to the output
QAPlot ==
    /\ pc = "qa_plot"
    /\ ~Blocked
    /\ \/ pc' = "qa" /\ qi' = qi + 1 /\ qs' = 1 /\ qabad' = FALSE /\ mexc' = mexc
       \/ qabad /\ pc' = "failed" /\ mexc' = "Error running topup QC"
                /\ UNCHANGED qaVars
    /\ UNCHANGED <<dataVars, ai, procs, waitfor, rc, log>>
    /\ UNCHANGED <<buildVars, rigidVars>>

\* run.py 377: the QA loop is over
QADone ==
    /\ pc = "qa"
    /\ ~Blocked
    /\ qi > Len(file_comparison)
    /\ pc' = "done"
    /\ UNCHANGED <<dataVars, ai, qaVars, procs, waitfor, rc, log, mexc>>
    /\ UNCHANGED <<buildVars, rigidVars>>

NextMain ==
    \/ CheckInputs
    \/ ExtractImage1
    \/ ExtractImage2
    \/ Merge
    \/ RunTopup
    \/ Communicate
    \/ ApplyCheck
    \/ ApplyTopup
    \/ ApplyReturn
    \/ Compare
    \/ QACheck
    \/ QACommand
    \/ QACommunicate
    \/ QARemove
    \/ QAPlot
    \/ QADone

SpecMain == MainInit /\ [][NextMain]_vars

(***************************************************************************)
(* One call of the Rigid Transform Builder.                                *)
(***************************************************************************)
RigidInit ==
    /\ BuildIdle
    /\ MainIdle
    /\ motion \in MotionParameters
    /\ premat = Zeros
    /\ rpc = "call"

\* the builder is called with the six parameters and returns the matrix
BuildRigidTransform ==
    /\ rpc = "call"
    /\ premat' = RigidTransform(motion.tx, motion.ty, motion.tz,
                                motion.rx, motion.ry, motion.rz)
    /\ rpc' = "returned"
    /\ UNCHANGED motion
    /\ UNCHANGED <<buildVars, mainVars>>

NextRigid == BuildRigidTransform

SpecRigid == RigidInit /\ [][NextRigid]_vars

(***************************************************************************)
(* The claims about build_command_list.                                    *)
(***************************************************************************)
RECURSIVE Flatten(_)
Flatten(ss) == IF ss = <<>> THEN <<>> ELSE Head(ss) \o Flatten(Tail(ss))

Key(i) == ParamList0[i][1]
Value(i) == ParamList0[i][2]
Options == 1..Len(ParamList0)
Returned == bpc = "returned"
\* the list the call returned
Out == heap[result]
IsShort(i) == Len(Key(i)) = 1
IsLong(i) == Len(Key(i)) > 1
IsBool(i) == Value(i).kind = "bool"
\* option i is not a boolean and its string form is empty / is not empty
EmptyForm(i) == ~IsBool(i) /\ StrOk(Value(i)) /\ Len(str(Value(i))) = 0
HasForm(i) == ~IsBool(i) /\ StrOk(Value(i)) /\ Len(str(Value(i))) > 0

\* C1: the list returned is the tokens of `command` at entry, unchanged and in
\* order, followed by what each option contributes, in the mapping's insertion
\* order, an option contributing what it contributes alone; and
\* build(['topup'], {'imain': 'a.nii', 'verbose': True}) is
\* ['topup', '--imain=a.nii', '--verbose'].
C1_OrderPreserved ==
    Returned =>
        /\ Len(Out) >= Len(command0)
        /\ SubSeq(Out, 1, Len(command0)) = command0
        /\ Len(added) = Len(ParamList0)
        /\ Out = command0 \o Flatten(added)
        /\ \A i \in Options :
             added[i] = LoopBody(<<>>, Key(i), Value(i), include_keys).command
        /\ ( /\ command0 = <<"topup">>
             /\ ParamList0 = << <<"imain", PyStr("a.nii")>>, <<"verbose", PyBool(TRUE)>> >>
             /\ include_keys )
           => Out = <<"topup", "--imain=a.nii", "--verbose">>

C1_Witness ==
    /\ Returned
    /\ command0 = <<"topup">>
    /\ ParamList0 = << <<"imain", PyStr("a.nii")>>, <<"verbose", PyBool(TRUE)>> >>
    /\ include_keys
    /\ Out = <<"topup", "--imain=a.nii", "--verbose">>

\* C2: with include_keys, a mapping whose keys are all longer than one
\* character and whose values are all non-empty strings contributes, for each
\* entry, exactly the one token "--{key}={value}".
C2_LongStringOptions ==
    ( /\ Returned
      /\ include_keys
      /\ \A i \in Options : IsLong(i) /\ Value(i).kind = "str" /\ Len(Value(i).s) > 0 )
    => /\ \A i \in Options : added[i] = << "--" \o Key(i) \o "=" \o Value(i).s >>
       /\ Out = command0 \o [i \in Options |-> "--" \o Key(i) \o "=" \o Value(i).s]

C2_Witness ==
    /\ Returned
    /\ include_keys
    /\ Len(ParamList0) = 2
    /\ \A i \in Options : IsLong(i) /\ Value(i).kind = "str" /\ Len(Value(i).s) > 0
    /\ Len(Out) = Len(command0) + 2

\* C3: with include_keys, an option with a one-character key and a boolean
\* value contributes the single token "-{key}" when the value is True and no
\* token when it is False.
C3_ShortBoolean ==
    (Returned /\ include_keys) =>
        \A i \in Options :
            (IsShort(i) /\ IsBool(i)) =>
                added[i] = IF Value(i).b THEN << "-" \o Key(i) >> ELSE <<>>

C3_Witness ==
    /\ Returned
    /\ include_keys
    /\ Len(ParamList0) = 2
    /\ IsShort(1) /\ Value(1) = PyBool(TRUE)
    /\ Out = command0 \o <<"-k">> \o added[2]

\* C4: with include_keys, an option with a one-character key and a value that
\* is not boolean contributes "-{key}" alone when the value's string form is
\* empty, and "-{key}" followed by str(value) otherwise.
C4_ShortValue ==
    (Returned /\ include_keys) =>
        \A i \in Options :
            /\ (IsShort(i) /\ EmptyForm(i)) => added[i] = << "-" \o Key(i) >>
            /\ (IsShort(i) /\ HasForm(i)) => added[i] = << "-" \o Key(i), str(Value(i)) >>

\* C5: with include_keys, an option with a longer key contributes nothing
\* when the value is False, "--{key}" when it is True, the bare "--{key}" when
\* it is not boolean and its string form is empty, "--{key}={value}"
\* otherwise; never more than one token.
C5_LongOption ==
    (Returned /\ include_keys) =>
        \A i \in Options :
            IsLong(i) =>
                /\ Len(added[i]) <= 1
                /\ (IsBool(i) /\ ~Value(i).b) => added[i] = <<>>
                /\ (IsBool(i) /\ Value(i).b) => added[i] = << "--" \o Key(i) >>
                /\ EmptyForm(i) => added[i] = << "--" \o Key(i) >>
                /\ HasForm(i) => added[i] = << "--" \o Key(i) \o "=" \o str(Value(i)) >>

C5_Witness ==
    /\ Returned
    /\ include_keys
    /\ Len(ParamList0) = 2
    /\ IsLong(1) /\ EmptyForm(1) /\ added[1] = << "--" \o Key(1) >>
    /\ IsLong(2) /\ IsBool(2) /\ ~Value(2).b /\ added[2] = <<>>

\* C6: with include_keys, the value 0 is a value: a short key k with 0
\* contributes "-k", "0" and a long key with 0 contributes "--key=0"; a
\* non-boolean option has its value rendered exactly when str(value) is not
\* empty, whatever its truth value.
C6_ZeroIsAValue ==
    (Returned /\ include_keys) =>
        \A i \in Options :
            /\ (IsShort(i) /\ Value(i) = PyInt(0)) => added[i] = << "-" \o Key(i), "0" >>
            /\ (IsLong(i) /\ Value(i) = PyInt(0)) => added[i] = << "--" \o Key(i) \o "=0" >>
            /\ (IsShort(i) /\ HasForm(i)) =>
                   (Len(added[i]) = 2 /\ added[i][2] = str(Value(i)))
            /\ (IsLong(i) /\ HasForm(i)) =>
                   added[i] = << "--" \o Key(i) \o "=" \o str(Value(i)) >>
            /\ EmptyForm(i) => \A j \in 1..Len(added[i]) :
                   added[i][j] \in {"-" \o Key(i), "--" \o Key(i)}

C6_Witness ==
    /\ Returned
    /\ include_keys
    /\ ParamList0 = << <<"k", PyInt(0)>>, <<"imain", PyInt(0)>> >>
    /\ Out = command0 \o <<"-k", "0", "--imain=0">>

\* C7: without include_keys no key name is emitted, every non-boolean option
\* with a non-empty string form, short key or long, contributes str(value) as
\* a token, and no empty token is ever appended.
C7_ValuesOnly ==
    (Returned /\ ~include_keys) =>
        \A i \in Options :
            /\ HasForm(i) => added[i] = << str(Value(i)) >>
            /\ \A j \in 1..Len(added[i]) : added[i][j] # ""

\* C8, as claimed: after a call the list passed as `command` and the mapping
\* passed as `ParamList` hold what they held before it, and the list returned
\* is a new one.
C8_NoSideEffects ==
    Returned =>
        /\ heap[command] = command0
        /\ ParamList = ParamList0
        /\ result # command

\* C8, amended: a call leaves `ParamList` as it was, creates no list, appends
\* the options' tokens to the list passed as `command` and returns that list.
C8_AppendsInPlace ==
    Returned =>
        /\ ParamList = ParamList0
        /\ Len(heap) = 1
        /\ result = command
        /\ heap[command] = command0 \o Flatten(added)

C8_Witness ==
    /\ Returned
    /\ result = command
    /\ Len(heap[command]) = Len(command0) + 2

\* a value that is neither boolean, numeric nor string-representable
Unsupported(v) == v.kind \notin {"bool", "int"} /\ ~StrOk(v)

NStarts == (Len(log) + 1) \div 2
StartAt(j) == log[2 * j - 1]
\* the commands main() runs before apply_topup: two extractions, fslmerge, topup
Preparation == Len(<<"image1", "image2", "merge", "topup">>)
\* the commands of one report: two outline overlays
ReportCmds == 2 * OutlineCmds

\* C10: the pipeline is sequential. At most one external command runs at any
\* time; a command is started only after the one before it has exited; the
\* commands come in the order: the volume of image_1, the volume of image_2,
\* fslmerge of Image1 then Image2, topup, applytopup for each file to correct in
\* the order of the list, then the commands of the QA reports.
C10_Sequential ==
    /\ Cardinality(procs) <= 1
    /\ \A i \in 1..Len(log) :
         IF i % 2 = 1
         THEN log[i].ev = "start" /\ log[i].pid = (i + 1) \div 2
         ELSE log[i].ev = "exit" /\ log[i].pid = log[i - 1].pid
    /\ procs = IF Len(log) % 2 = 1 THEN {log[Len(log)].pid} ELSE {}
    /\ \A j \in 1..NStarts :
         LET e == StartAt(j)
             n == Len(apply_to_files)
         IN  /\ j = 1 => /\ e.by = "generate_topup_input"
                         /\ e.argv[1] \in {"fslroi", "fslmaths"}
                         /\ e.argv[2] = "input/image_1/a.nii.gz"
                         /\ e.argv[3] = "work/Image1"
             /\ j = 2 => /\ e.by = "generate_topup_input"
                         /\ e.argv[1] \in {"fslroi", "fslmaths"}
                         /\ e.argv[2] = "input/image_2/b.nii.gz"
                         /\ e.argv[3] = "work/Image2"
             /\ j = 3 => e.argv = <<"fslmerge", "-t", "work/topup_vols",
                                    "work/Image1", "work/Image2">>
             /\ j = 4 => e.by = "run_topup" /\ e.argv[1] = "topup"
             /\ j > Preparation => e.by \in {"apply_topup", "generate_topup_report"}
             /\ e.by = "apply_topup" =>
                  /\ ~ctx.topup_only
                  /\ j > Preparation /\ j - Preparation <= n
                  /\ e.argv[1] = "applytopup"
                  /\ e.argv[2] = "--imain=" \o PathStr(apply_to_files[j - Preparation][1])
             /\ e.by = "generate_topup_report" =>
                  /\ ctx.QA /\ ~ctx.topup_only
                  /\ j > Preparation + n
    /\ pc = "done" =>
         NStarts = Preparation + Len(apply_to_files)
                     + (IF ctx.QA THEN ReportCmds * Len(apply_to_files) ELSE 0)

C10_Witness ==
    /\ pc = "done"
    /\ ctx.QA
    /\ Len(apply_to_files) = 2
    /\ Len(log) = 2 * (Preparation + 2 + 2 * ReportCmds)
    /\ procs = {}
    /\ StartAt(Preparation + 2).argv[1] = "applytopup"
    /\ StartAt(Preparation + 3).by = "generate_topup_report"

\* C11: every failure of an external command raises and ends the run. Whenever
\* communicate() has seen a return code that is not 0, of a command of
\* exec_command or of bet, bet_2_outline or overlay, main() has raised there:
\* it is over with an exception, nothing runs any more and nothing is started
\* again.
C11_FailureRaises ==
    rc # 0 => (pc = "failed" /\ mexc # "none" /\ procs = {} /\ waitfor = 0)

\* an image with more than one volume
FourD(shape) == Len(shape) >= 4 /\ shape[4] > 1
Given(path) == path # NoPath
\* check_inputs has returned
Checked == pc \notin {"idle", "check_inputs"}

\* C12: with rx = ry = rz = 0 the matrix returned has the identity as its
\* upper-left 3x3 block, [tx, ty, tz, 1] as its last column and [0, 0, 0, 1]
\* as its bottom row; with all six parameters 0 it is the 4x4 identity.
C12_ZeroRotation ==
    (rpc = "returned" /\ motion.rx = 0 /\ motion.ry = 0 /\ motion.rz = 0) =>
        /\ \A i, j \in 0..2 : premat[i][j] = (IF i = j THEN 1 ELSE 0)
        /\ premat[0][3] = motion.tx
        /\ premat[1][3] = motion.ty
        /\ premat[2][3] = motion.tz
        /\ premat[3][3] = 1
        /\ \A j \in 0..2 : premat[3][j] = 0
        /\ (motion.tx = 0 /\ motion.ty = 0 /\ motion.tz = 0) => premat = Eye

\* a call with no rotation and three different translations has returned
C12_Witness ==
    /\ rpc = "returned"
    /\ motion.rx = 0 /\ motion.ry = 0 /\ motion.rz = 0
    /\ motion.tx = 1 /\ motion.ty = 0 - 1 /\ motion.tz = 0
    /\ premat[0][3] = 1 /\ premat[1][3] = 0 - 1

C14_TopupOnlyCompletes ==
    (Checked /\ ctx.topup_only /\ rc = 0) =>
        /\ \A i \in 1..Len(log) : log[i].by # "apply_topup"
        /\ pc # "failed"
        /\ mexc = "none"

\* the starts of applytopup, in order
ApplyStarts == SelectSeq(log, LAMBDA e : e.ev = "start" /\ e.by = "apply_topup")
\* the file the output path p was last written from: the --imain of the last
\* applytopup started with --out=p
LastWriter(p) ==
    LET w == {i \in 1..Len(ApplyStarts) : ApplyStarts[i].argv[8] = "--out=" \o PathStr(p)}
        last == CHOOSE i \in w : \A j \in w : j <= i
    IN  ApplyStarts[last].argv[2]

\* apply_topup gives one output path per entry of its list, in order, each
\* output_dir/topup-corrected-<base name of the file>, and starts applytopup
\* for an entry with that entry's file and row index
C15_OwnOutputs ==
    /\ (Checked /\ corrected_files.bound) =>
         /\ Len(corrected_files.value) = Len(apply_to_files)
         /\ Len(ApplyStarts) = Len(apply_to_files)
         /\ \A i \in 1..Len(apply_to_files) :
              corrected_files.value[i] =
                  Path("output", "topup-corrected-" \o apply_to_files[i][1].base)
    /\ Checked =>
         \A i \in 1..Len(ApplyStarts) :
            /\ i <= Len(apply_to_files)
            /\ ApplyStarts[i].argv[1] = "applytopup"
            /\ ApplyStarts[i].argv[2] = "--imain=" \o PathStr(apply_to_files[i][1])
            /\ ApplyStarts[i].argv[4] = "--inindex=" \o apply_to_files[i][2]
            /\ ApplyStarts[i].argv[8] =
                  "--out=output/topup-corrected-" \o apply_to_files[i][1].base
    /\ pc \in {"qa_check", "qa", "qa_remove", "qa_plot", "done"} =>
         /\ Len(file_comparison) = Len(apply_to_files)
         /\ \A i \in 1..Len(file_comparison) :
              file_comparison[i] = <<apply_to_files[i][1], corrected_files.value[i]>>

\* distinct entries have distinct output paths, and the corrected file of a
\* QA pair was made from the pair's original
C15_DistinctOutputs ==
    /\ (Checked /\ corrected_files.bound) =>
         \A i, j \in 1..Len(apply_to_files) :
            apply_to_files[i] # apply_to_files[j] =>
                corrected_files.value[i] # corrected_files.value[j]
    /\ pc \in {"qa_check", "qa", "qa_remove", "qa_plot", "done"} =>
         \A i \in 1..Len(file_comparison) :
            LastWriter(file_comparison[i][2]) = "--imain=" \o PathStr(file_comparison[i][1])

\* C15: apply_topup returns one output path per entry of its list, in order,
\* each output_dir/topup-corrected-<base name>, and runs applytopup for an
\* entry with its own file and row index; hence every QA pair relates a file to
\* the output made from that file, and distinct entries have distinct outputs.
C15_OutputPerEntry == C15_OwnOutputs /\ C15_DistinctOutputs

====
